---- MODULE Spec2Model ----
(***************************************************************************)
(* Study Buddy: the local mirror (MongoDB documents of src/src/models.py)  *)
(* of the resources held by the hosted AI provider, and the lifecycle      *)
(* functions of src/src/utils.py that create, deduplicate and cascade-     *)
(* delete them.  The provider is reached through `client`                  *)
(* (src/src/config.py); each of its calls may succeed, answer with a soft  *)
(* failure (deleted = False, no id) or raise.                              *)
(***************************************************************************)
EXTENDS Integers, Sequences, FiniteSets, TLC

VARIABLES cfg, w, last, text, anns, fpc, saved, chat, sess

vars == <<cfg, w, last, text, anns, fpc, saved, chat, sess>>

(***************************************************************************)
(* Bounds.  Identifiers handed out by the provider are never reused: they  *)
(* are drawn from counters capped by these bounds.                         *)
(***************************************************************************)
MaxFiles == 1

MaxVS == 1

MaxAsst == 1

MaxThreads == 1

MaxMsgs == 1

MaxSel == 1

MaxFail == 1

ChatMaxMsgs == 4

MaxPolls == 2

MaxDomains == 2

RemoveMaxFail == 0

RaceMaxFiles == 2

RaceMaxVS == 2

RaceMaxSel == 2

RaceMaxOther == 0

ReuseMaxFiles == 1

ReuseMaxVS == 2

ReuseMaxSel == 2

ReuseMaxOther == 0

DedupMaxVS == 2

DedupMaxAsst == 0

DedupMaxThreads == 0

DedupMaxMsgs == 0

AsstMaxFiles == 0

AsstMaxAsst == 2

AsstMaxThreads == 0

AsstMaxMsgs == 0

AttachMaxFiles == 2

AttachMaxSel == 2

AttachMaxOther == 0

OwnerMaxOther == 0

MsgMaxOther == 0

MsgMaxThreads == 2

MsgMaxMsgs == 4

\* the annotation pass: length of the generated response texts and of the
\* annotation texts, number of annotations
MaxTextLen == 3

MaxAnnLen == 2

MaxAnns == 2

VSNames == {"v1"}

AsstNameArgs == {"", "n1"}

\* None / the empty string "" of an identifier argument
None == 0

\* the value of a call that ended by raising instead of returning
Raised == -1

FileIds == 1..cfg.files

VSIds == 1..cfg.vs

AsstIds == 1..cfg.asst

ThreadIds == 1..cfg.threads

Users == cfg.users

\* the identifiers a delete or save request can name: those the provider
\* can hand out and one it never does
FileArgs == 1..(cfg.files + 1)

VSArgs == 1..(cfg.vs + 1)

AsstArgs == 1..(cfg.asst + 1)

ThreadArgs == 1..(cfg.threads + 1)

(***************************************************************************)
(* Helpers.                                                                *)
(***************************************************************************)
Min(S) == CHOOSE x \in S : \A y \in S : x <= y

RECURSIVE SortedSeq(_)
\* the ids of a queryset in natural (insertion = ascending id) order
SortedSeq(S) == IF S = {} THEN << >> ELSE <<Min(S)>> \o SortedSeq(S \ {Min(S)})

Range(s) == {s[i] : i \in 1..Len(s)}

Ids(recs) == {r.id : r \in recs}

(***************************************************************************)
(* The world: local collections (models.py) and the provider's resources.  *)
(*   files      File documents           [id, user]                        *)
(*   vstores    VectorStore documents    [id, name, user]                  *)
(*   assistants Assistant documents      [id, name, vs, user]              *)
(*   threads    Thread documents         [id, vs, asst, user]              *)
(*   messages   Message documents        [thread, role, at, n]: created_at *)
(*                                       and the insertion number          *)
(*   rfiles, rvs, rassts, rthreads       the provider's resources          *)
(*   nf, nv, na, nt                      next identifier the provider      *)
(*                                       hands out, per kind               *)
(*   users      User documents           [username, email]                 *)
(***************************************************************************)
EmptyWorld ==
  [files |-> {}, vstores |-> {}, assistants |-> {}, threads |-> {},
   messages |-> {}, rfiles |-> {}, rvs |-> {}, rassts |-> {}, rthreads |-> {},
   nf |-> 1, nv |-> 1, na |-> 1, nt |-> 1, nm |-> 1, clock |-> 1,
   users |-> {}]

\* the provider's current file-id set of a vector store
Members(W, v) == UNION {r.files : r \in {x \in W.rvs : x.id = v}}

(***************************************************************************)
(* The provider boundary.  A handler run carries X = [w, calls]: the world *)
(* and the provider calls issued so far, each [op, id, n, out] with n the  *)
(* ordinal of the call among those of the same op and id.  The oracle      *)
(* O = [F, fk] names the calls that fail and how: "soft" (the response     *)
(* says deleted = False / carries no id) or "raise".  A call on a resource *)
(* the provider does not hold raises.                                      *)
(***************************************************************************)
SoftOps == {"del_thread", "del_asst", "del_vs", "del_file", "create_asst"}

NCalls(calls, op, id) == Cardinality({c \in calls : c.op = op /\ c.id = id})

Remote(X, O, op, id, exists) ==
  LET n == NCalls(X.calls, op, id) + 1
      out == IF ~exists THEN "raise"
             ELSE IF <<op, id, n>> \in O.F
                  THEN (IF op \in SoftOps THEN O.fk ELSE "raise")
                  ELSE "ok"
  IN [out |-> out,
      calls |-> X.calls \cup {[op |-> op, id |-> id, n |-> n, out |-> out]}]

Ret(W, calls, ret) == [w |-> W, calls |-> calls, ret |-> ret]

\* a sub-step called for its effect alone: its return value is not read
Discard(r) == [w |-> r.w, calls |-> r.calls]

(***************************************************************************)
(* utils.py: upload_to_openai + the body of handle_file_upload's loop      *)
(***************************************************************************)
handle_file_upload(X, O, user) ==
  LET r == Remote(X, O, "upload", X.w.nf, TRUE) IN
  IF r.out # "ok" THEN Ret(X.w, r.calls, FALSE)
  ELSE Ret([X.w EXCEPT !.rfiles = @ \cup {X.w.nf},
                       !.nf = @ + 1,
                       !.files = @ \cup {[id |-> X.w.nf, user |-> user]}],
           r.calls, TRUE)

(***************************************************************************)
(* utils.py: create_thread                                                 *)
(***************************************************************************)
\* VectorStore.objects(vector_store_id=...).first(): the referenced
\* document's id, or None
FirstVS(W, vid) ==
  IF \E v \in W.vstores : v.id = vid THEN vid ELSE None

\* variant: the local record is saved before the provider's answer is known
create_thread_save_first(X, O, aid, vid, user) ==
  LET r == Remote(X, O, "create_thread", X.w.nt, TRUE)
      W1 == [X.w EXCEPT !.threads = @ \cup
                          {[id |-> X.w.nt,
                            vs |-> IF vid # None THEN FirstVS(X.w, vid) ELSE None,
                            asst |-> aid,
                            user |-> user]}]
  IN IF r.out # "ok" THEN Ret(W1, r.calls, None)
     ELSE Ret([W1 EXCEPT !.rthreads = @ \cup {X.w.nt}, !.nt = @ + 1],
              r.calls, X.w.nt)

create_thread(X, O, aid, vid, user) ==
  LET r == Remote(X, O, "create_thread", X.w.nt, TRUE) IN
  IF r.out # "ok" THEN Ret(X.w, r.calls, None)
  ELSE Ret([X.w EXCEPT !.rthreads = @ \cup {X.w.nt},
                       !.nt = @ + 1,
                       !.threads = @ \cup
                          {[id |-> X.w.nt,
                            vs |-> IF vid # None THEN FirstVS(X.w, vid) ELSE None,
                            asst |-> aid,
                            user |-> user]}],
           r.calls, X.w.nt)

(***************************************************************************)
(* utils.py: delete_thread (the same code as main.py: delete_thread)       *)
(***************************************************************************)
\* variant: the Thread document is removed and its Messages are kept
delete_thread_keep_messages(X, O, tid) ==
  LET ts == {t \in X.w.threads : t.id = tid} IN
  IF ts = {} THEN Ret(X.w, X.calls, FALSE)
  ELSE LET r == Remote(X, O, "del_thread", tid, tid \in X.w.rthreads) IN
       IF r.out # "ok" THEN Ret(X.w, r.calls, FALSE)
       ELSE Ret([X.w EXCEPT !.rthreads = @ \ {tid}, !.threads = @ \ ts],
                r.calls, TRUE)

\* variant: the local Messages are deleted before the provider's answer is
\* known
delete_thread_local_first(X, O, tid) ==
  LET ts == {t \in X.w.threads : t.id = tid} IN
  IF ts = {} THEN Ret(X.w, X.calls, FALSE)
  ELSE LET W1 == [X.w EXCEPT !.messages = {m \in @ : m.thread # tid}]
           r == Remote(X, O, "del_thread", tid, tid \in X.w.rthreads)
       IN IF r.out # "ok" THEN Ret(W1, r.calls, FALSE)
          ELSE Ret([W1 EXCEPT !.rthreads = @ \ {tid}, !.threads = @ \ ts],
                   r.calls, TRUE)

delete_thread(X, O, tid) ==
  LET ts == {t \in X.w.threads : t.id = tid} IN
  IF ts = {} THEN Ret(X.w, X.calls, FALSE)
  ELSE LET r == Remote(X, O, "del_thread", tid, tid \in X.w.rthreads) IN
       IF r.out # "ok" THEN Ret(X.w, r.calls, FALSE)
       ELSE Ret([X.w EXCEPT !.rthreads = @ \ {tid},
                            !.messages = {m \in @ : m.thread # tid},
                            !.threads = @ \ ts],
                r.calls, TRUE)

(***************************************************************************)
(* utils.py: save_message                                                  *)
(***************************************************************************)
\* now: datetime.now(timezone.utc) as read by this call
save_message(X, tid, role, now) ==
  IF ~(\E t \in X.w.threads : t.id = tid) THEN Ret(X.w, X.calls, FALSE)
  ELSE Ret([X.w EXCEPT !.messages = @ \cup
                         {[thread |-> tid, role |-> role, at |-> now, n |-> X.w.nm]},
                       !.nm = @ + 1,
                       !.clock = now],
           X.calls, TRUE)

(***************************************************************************)
(* utils.py: get_messages.  order_by('+created_at') fixes the order of     *)
(* Messages with different creation times only: every order of the         *)
(* Thread's Messages that is ascending in created_at is a possible result. *)
(***************************************************************************)
Ascending(s) == \A i, j \in 1..Len(s) : i < j => s[i].at <= s[j].at

Descending(s) == \A i, j \in 1..Len(s) : i < j => s[i].at >= s[j].at

Orderings(S) ==
  {s \in [1..Cardinality(S) -> S] : \A i, j \in 1..Cardinality(S) : s[i] = s[j] => i = j}

\* variant: order_by('-created_at')
get_messages_descending(W, tid) ==
  IF ~(\E t \in W.threads : t.id = tid) THEN {<< >>}
  ELSE {s \in Orderings({m \in W.messages : m.thread = tid}) : Descending(s)}

get_messages(W, tid) ==
  IF ~(\E t \in W.threads : t.id = tid) THEN {<< >>}
  ELSE {s \in Orderings({m \in W.messages : m.thread = tid}) : Ascending(s)}

(***************************************************************************)
(* utils.py: create_vector_store and create_vector_store_files             *)
(***************************************************************************)
\* variant: the length test is inverted
SameFiles_length_differs(members, sel) ==
  members = Range(sel) /\ Cardinality(members) # Len(sel)

\* variant: a store holding some of the requested files is taken
SameFiles_subset(members, sel) ==
  members \subseteq Range(sel) /\ Cardinality(members) <= Len(sel)

\* set(vs_file_ids) == set(selected_file_ids) and
\* len(vs_file_ids) == len(selected_file_ids)
SameFiles(members, sel) ==
  members = Range(sel) /\ Cardinality(members) = Len(sel)

RECURSIVE ScanStores(_, _, _, _)
\* the dedup scan over the caller's stores: the first store whose listing
\* succeeds and equals the selection, or None; a listing that raises is
\* skipped
ScanStores(X, O, vids, sel) ==
  IF vids = << >> THEN [calls |-> X.calls, found |-> None]
  ELSE LET v == Head(vids)
           r == Remote(X, O, "list", v, v \in Ids(X.w.rvs))
       IN IF r.out = "ok" /\ SameFiles(Members(X.w, v), sel)
          THEN [calls |-> r.calls, found |-> v]
          ELSE ScanStores([w |-> X.w, calls |-> r.calls], O, Tail(vids), sel)

\* variant: the stores of the other users are scanned
UserStores_of_others(W, user) ==
  SortedSeq({v.id : v \in {x \in W.vstores : x.user # user}})

UserStores(W, user) == SortedSeq({v.id : v \in {x \in W.vstores : x.user = user}})

check_existing_vector_store(X, O, sel, user) ==
  ScanStores(X, O, UserStores(X.w, user), sel)

RECURSIVE create_vector_store_files_stop(_, _, _, _)
\* variant: the loop ends at the first attach that raises
create_vector_store_files_stop(X, O, vid, fids) ==
  IF fids = << >> THEN X
  ELSE LET f == Head(fids)
           r == Remote(X, O, "attach", f, TRUE)
       IN IF r.out # "ok" THEN [w |-> X.w, calls |-> r.calls]
          ELSE create_vector_store_files_stop(
                 [w |-> [X.w EXCEPT !.rvs =
                           {IF x.id = vid
                            THEN [x EXCEPT !.files = @ \cup {f}] ELSE x : x \in @}],
                  calls |-> r.calls],
                 O, vid, Tail(fids))

RECURSIVE create_vector_store_files(_, _, _, _)
\* each attach is tried; one that raises is logged and the loop goes on
create_vector_store_files(X, O, vid, fids) ==
  IF fids = << >> THEN X
  ELSE LET f == Head(fids)
           r == Remote(X, O, "attach", f, TRUE)
           W1 == IF r.out # "ok" THEN X.w
                 ELSE [X.w EXCEPT !.rvs =
                        {IF x.id = vid
                         THEN [x EXCEPT !.files = @ \cup {f}] ELSE x : x \in @}]
       IN create_vector_store_files([w |-> W1, calls |-> r.calls], O, vid, Tail(fids))

create_vector_store(X, O, name, sel, user) ==
  LET vid == X.w.nv
      Attached(a) == Ret(a.w, a.calls, vid)
      Create(s) ==
        LET r == Remote([w |-> X.w, calls |-> s.calls], O, "create_vs", vid, TRUE) IN
        IF r.out # "ok" THEN Ret(X.w, r.calls, None)
        ELSE Attached(create_vector_store_files(
               [w |-> [X.w EXCEPT !.rvs = @ \cup {[id |-> vid, files |-> {}]},
                                  !.nv = @ + 1,
                                  !.vstores = @ \cup
                                     {[id |-> vid, name |-> name, user |-> user]}],
                calls |-> r.calls],
               O, vid, sel))
      Scanned(s) == IF s.found # None THEN Ret(X.w, s.calls, s.found) ELSE Create(s)
  IN Scanned(ScanStores(X, O, UserStores(X.w, user), sel))

(***************************************************************************)
(* utils.py: create_assistant                                              *)
(***************************************************************************)
\* not name or name.strip() == ''
IsBlank(name) == name \in {"", " "}

VSName(W, vid) == (CHOOSE v \in W.vstores : v.id = vid).name

DefaultName(W, vs) ==
  IF vs # None THEN "Assistant for " \o VSName(W, vs) ELSE "Study Buddy Assistant"

\* Assistant.objects(vector_store=vector_store, user=user)
ExistingAssistants(W, vs, user) ==
  {a \in W.assistants : vs # None /\ a.vs = vs /\ a.user = user}

\* variant: a reused Assistant takes the name passed to the call
create_assistant_rename(X, O, name, vid, user) ==
  LET vs == FirstVS(X.w, vid)
      existing == ExistingAssistants(X.w, vs, user)
      e == Min(Ids(existing))
  IN IF existing # {}
     THEN Ret([X.w EXCEPT !.assistants =
                 {IF a.id = e /\ ~IsBlank(name) THEN [a EXCEPT !.name = name] ELSE a
                    : a \in @}],
              X.calls, e)
     ELSE LET nm == IF IsBlank(name) THEN DefaultName(X.w, vs) ELSE name
              aid == X.w.na
              r == Remote(X, O, "create_asst", aid, TRUE)
          IN IF r.out # "ok" THEN Ret(X.w, r.calls, Raised)
             ELSE LET W1 == [X.w EXCEPT !.rassts = @ \cup
                                          {[id |-> aid, vs |-> vid, by |-> user]},
                                        !.na = @ + 1]
                  IN IF vs = None
                     THEN Ret(W1, r.calls, Raised)
                     ELSE Ret([W1 EXCEPT !.assistants = @ \cup
                                  {[id |-> aid, name |-> nm, vs |-> vs, user |-> user]}],
                              r.calls, aid)

\* variant: the except branch returns None instead of raising
create_assistant_swallow(X, O, name, vid, user) ==
  LET vs == FirstVS(X.w, vid)
      existing == ExistingAssistants(X.w, vs, user)
  IN IF existing # {} THEN Ret(X.w, X.calls, Min(Ids(existing)))
     ELSE LET nm == IF IsBlank(name) THEN DefaultName(X.w, vs) ELSE name
              aid == X.w.na
              r == Remote(X, O, "create_asst", aid, TRUE)
          IN IF r.out # "ok" THEN Ret(X.w, r.calls, None)
             ELSE LET W1 == [X.w EXCEPT !.rassts = @ \cup
                                          {[id |-> aid, vs |-> vid, by |-> user]},
                                        !.na = @ + 1]
                  IN IF vs = None
                     THEN Ret(W1, r.calls, None)
                     ELSE Ret([W1 EXCEPT !.assistants = @ \cup
                                  {[id |-> aid, name |-> nm, vs |-> vs, user |-> user]}],
                              r.calls, aid)

create_assistant(X, O, name, vid, user) ==
  LET vs == FirstVS(X.w, vid)
      existing == ExistingAssistants(X.w, vs, user)
  IN IF existing # {} THEN Ret(X.w, X.calls, Min(Ids(existing)))
     ELSE LET nm == IF IsBlank(name) THEN DefaultName(X.w, vs) ELSE name
              aid == X.w.na
              r == Remote(X, O, "create_asst", aid, TRUE)
          IN IF r.out # "ok" THEN Ret(X.w, r.calls, Raised)
             ELSE LET W1 == [X.w EXCEPT !.rassts = @ \cup
                                          {[id |-> aid, vs |-> vid, by |-> user]},
                                        !.na = @ + 1]
                  IN IF vs = None
                     \* vector_store is a required field: save() raises
                     THEN Ret(W1, r.calls, Raised)
                     ELSE Ret([W1 EXCEPT !.assistants = @ \cup
                                  {[id |-> aid, name |-> nm, vs |-> vs, user |-> user]}],
                              r.calls, aid)

(***************************************************************************)
(* utils.py: delete_assistant, delete_vector_store, delete_file            *)
(***************************************************************************)
RECURSIVE DeleteThreads(_, _, _)
\* for thread in threads: delete_thread(thread.thread_id)
DeleteThreads(X, O, tids) ==
  IF tids = << >> THEN X
  ELSE DeleteThreads(Discard(delete_thread(X, O, Head(tids))), O, Tail(tids))

\* variant: the local record is deleted whatever the provider answers
delete_assistant_local_first(X, O, aid, user) ==
  LET as == {a \in X.w.assistants : a.id = aid /\ a.user = user}
      tids == SortedSeq({t.id : t \in {x \in X.w.threads :
                                       x.asst = aid /\ x.user = user}})
      Delete(X1) ==
        LET W1 == [X1.w EXCEPT !.assistants = @ \ as]
            r == Remote(X1, O, "del_asst", aid, aid \in Ids(X1.w.rassts))
        IN IF r.out # "ok" THEN Ret(W1, r.calls, FALSE)
           ELSE Ret([W1 EXCEPT !.rassts = {x \in @ : x.id # aid}], r.calls, TRUE)
  IN IF as = {} THEN Ret(X.w, X.calls, FALSE)
     ELSE Delete(DeleteThreads(X, O, tids))

\* variant: the Assistant is looked up by id alone, whoever owns it
delete_assistant_any_owner(X, O, aid, user) ==
  LET as == {a \in X.w.assistants : a.id = aid}
      tids == SortedSeq({t.id : t \in {x \in X.w.threads :
                                       x.asst = aid /\ x.user = user}})
      Delete(X1) ==
        LET r == Remote(X1, O, "del_asst", aid, aid \in Ids(X1.w.rassts)) IN
        IF r.out # "ok" THEN Ret(X1.w, r.calls, FALSE)
        ELSE Ret([X1.w EXCEPT !.rassts = {x \in @ : x.id # aid},
                              !.assistants = @ \ as],
                 r.calls, TRUE)
  IN IF as = {} THEN Ret(X.w, X.calls, FALSE)
     ELSE Delete(DeleteThreads(X, O, tids))

delete_assistant(X, O, aid, user) ==
  LET as == {a \in X.w.assistants : a.id = aid /\ a.user = user}
      tids == SortedSeq({t.id : t \in {x \in X.w.threads :
                                       x.asst = aid /\ x.user = user}})
      \* X1: the run after the Threads' loop
      Delete(X1) ==
        LET r == Remote(X1, O, "del_asst", aid, aid \in Ids(X1.w.rassts)) IN
        IF r.out # "ok" THEN Ret(X1.w, r.calls, FALSE)
        ELSE Ret([X1.w EXCEPT !.rassts = {x \in @ : x.id # aid},
                              !.assistants = @ \ as],
                 r.calls, TRUE)
  IN IF as = {} THEN Ret(X.w, X.calls, FALSE)
     ELSE Delete(DeleteThreads(X, O, tids))

RECURSIVE DeleteAssistants(_, _, _, _)
\* for assistant in assistants: delete_assistant(assistant.assistant_id, user)
DeleteAssistants(X, O, aids, user) ==
  IF aids = << >> THEN X
  ELSE DeleteAssistants(Discard(delete_assistant(X, O, Head(aids), user)),
                        O, Tail(aids), user)

\* variant: the Thread list is fetched before the Assistants' loop and a
\* failed sub-step aborts the cascade
delete_vector_store_abort(X, O, vid, user) ==
  LET vs == {v \in X.w.vstores : v.id = vid /\ v.user = user}
      aids == SortedSeq({a.id : a \in {x \in X.w.assistants :
                                       x.vs = vid /\ x.user = user}})
      tids == {t.id : t \in {x \in X.w.threads : x.vs = vid /\ x.user = user}}
      Delete(X2) ==
        LET r == Remote(X2, O, "del_vs", vid, vid \in Ids(X2.w.rvs)) IN
        IF r.out # "ok" THEN Ret(X2.w, r.calls, FALSE)
        ELSE Ret([X2.w EXCEPT !.rvs = {x \in @ : x.id # vid},
                              !.vstores = @ \ vs],
                 r.calls, TRUE)
      Threads(X1) ==
        IF tids \ Ids(X1.w.threads) # {}
        THEN Ret(X1.w, X1.calls, FALSE)
        ELSE Delete(DeleteThreads(X1, O, SortedSeq(tids)))
  IN IF vs = {} THEN Ret(X.w, X.calls, FALSE)
     ELSE Threads(DeleteAssistants(X, O, aids, user))

\* variant: the Threads of the store are fetched whoever owns them
delete_vector_store_any_thread(X, O, vid, user) ==
  LET vs == {v \in X.w.vstores : v.id = vid /\ v.user = user}
      aids == SortedSeq({a.id : a \in {x \in X.w.assistants :
                                       x.vs = vid /\ x.user = user}})
      Delete(X2) ==
        LET r == Remote(X2, O, "del_vs", vid, vid \in Ids(X2.w.rvs)) IN
        IF r.out # "ok" THEN Ret(X2.w, r.calls, FALSE)
        ELSE Ret([X2.w EXCEPT !.rvs = {x \in @ : x.id # vid},
                              !.vstores = @ \ vs],
                 r.calls, TRUE)
      Threads(X1) ==
        Delete(DeleteThreads(X1, O,
                 SortedSeq({t.id : t \in {x \in X1.w.threads : x.vs = vid}})))
  IN IF vs = {} THEN Ret(X.w, X.calls, FALSE)
     ELSE Threads(DeleteAssistants(X, O, aids, user))

delete_vector_store(X, O, vid, user) ==
  LET vs == {v \in X.w.vstores : v.id = vid /\ v.user = user}
      aids == SortedSeq({a.id : a \in {x \in X.w.assistants :
                                       x.vs = vid /\ x.user = user}})
      \* X2: the run after both loops
      Delete(X2) ==
        LET r == Remote(X2, O, "del_vs", vid, vid \in Ids(X2.w.rvs)) IN
        IF r.out # "ok" THEN Ret(X2.w, r.calls, FALSE)
        ELSE Ret([X2.w EXCEPT !.rvs = {x \in @ : x.id # vid},
                              !.vstores = @ \ vs],
                 r.calls, TRUE)
      \* X1: the run after the Assistants' loop; the Thread queryset is
      \* evaluated when iterated, after that loop
      Threads(X1) ==
        Delete(DeleteThreads(X1, O,
                 SortedSeq({t.id : t \in {x \in X1.w.threads :
                                          x.vs = vid /\ x.user = user}})))
  IN IF vs = {} THEN Ret(X.w, X.calls, FALSE)
     ELSE Threads(DeleteAssistants(X, O, aids, user))

RECURSIVE AffectedStores(_, _, _, _)
\* the first loop of delete_file: the caller's stores whose listing
\* succeeds and contains the file
AffectedStores(X, O, vids, fid) ==
  IF vids = << >> THEN [calls |-> X.calls, affected |-> << >>]
  ELSE LET v == Head(vids)
           r == Remote(X, O, "list", v, v \in Ids(X.w.rvs))
           Cons(rest) ==
             IF r.out = "ok" /\ fid \in Members(X.w, v)
             THEN [calls |-> rest.calls, affected |-> <<v>> \o rest.affected]
             ELSE rest
       IN Cons(AffectedStores([w |-> X.w, calls |-> r.calls], O, Tail(vids), fid))

RECURSIVE ManageStores_detach_only(_, _, _, _, _)
\* variant: the file is detached from every affected store, none is deleted
ManageStores_detach_only(X, O, vids, fid, user) ==
  IF vids = << >> THEN X
  ELSE LET v == Head(vids)
           l == Remote(X, O, "list", v, v \in Ids(X.w.rvs))
           Xl == [w |-> X.w, calls |-> l.calls]
           Detach(d) ==
             [w |-> IF d.out # "ok" THEN X.w
                    ELSE [X.w EXCEPT !.rvs =
                           {IF x.id = v
                            THEN [x EXCEPT !.files = @ \ {fid}] ELSE x : x \in @}],
              calls |-> d.calls]
           next ==
             IF l.out # "ok" THEN Xl
             ELSE Detach(Remote(Xl, O, "detach", v, fid \in Members(X.w, v)))
       IN ManageStores_detach_only(next, O, Tail(vids), fid, user)

RECURSIVE ManageStores(_, _, _, _, _)
\* the second loop of delete_file: delete the store whose only file this
\* is, detach the file from the others; an error is logged and skipped
ManageStores(X, O, vids, fid, user) ==
  IF vids = << >> THEN X
  ELSE LET v == Head(vids)
           l == Remote(X, O, "list", v, v \in Ids(X.w.rvs))
           Xl == [w |-> X.w, calls |-> l.calls]
           Detach(d) ==
             [w |-> IF d.out # "ok" THEN X.w
                    ELSE [X.w EXCEPT !.rvs =
                           {IF x.id = v
                            THEN [x EXCEPT !.files = @ \ {fid}] ELSE x : x \in @}],
              calls |-> d.calls]
           next ==
             IF l.out # "ok" THEN Xl
             ELSE IF Members(X.w, v) = {fid}
             THEN Discard(delete_vector_store(Xl, O, v, user))
             ELSE Detach(Remote(Xl, O, "detach", v, fid \in Members(X.w, v)))
       IN ManageStores(next, O, Tail(vids), fid, user)

delete_file(X, O, fid, user) ==
  LET fs == {f \in X.w.files : f.id = fid /\ f.user = user}
      \* X1: the run after the stores' loop
      Delete(X1) ==
        LET r == Remote(X1, O, "del_file", fid, fid \in X1.w.rfiles) IN
        IF r.out # "ok" THEN Ret(X1.w, r.calls, FALSE)
        ELSE Ret([X1.w EXCEPT !.rfiles = @ \ {fid}, !.files = @ \ fs],
                 r.calls, TRUE)
      Manage(a) ==
        Delete(ManageStores([w |-> X.w, calls |-> a.calls], O, a.affected, fid, user))
  IN IF fs = {} THEN Ret(X.w, X.calls, FALSE)
     ELSE Manage(AffectedStores(X, O, UserStores(X.w, user), fid))

(***************************************************************************)
(* The oracle of one handler run: at most MaxFail of the provider calls    *)
(* the handler can issue fail.                                             *)
(***************************************************************************)
RECURSIVE SubsetsUpTo(_, _)
SubsetsUpTo(K, k) ==
  IF k = 0 THEN {{}}
  ELSE LET S == SubsetsUpTo(K, k - 1) IN S \cup {s \cup {x} : s \in S, x \in K}

Oracles(K) ==
  {[F |-> F, fk |-> k] : F \in SubsetsUpTo(K, cfg.fail), k \in {"soft", "raise"}}

\* every failure the oracle names is one the run met; "soft" is named only
\* when a call that can answer softly failed
Met(O, r) ==
  /\ \A k \in O.F : \E c \in r.calls :
        c.op = k[1] /\ c.id = k[2] /\ c.n = k[3] /\ c.out # "ok"
  /\ O.fk = "soft" => \E k \in O.F : k[1] \in SoftOps

Keys(ops, ids, ns) == {<<o, i, n>> : o \in ops, i \in ids, n \in ns}

AllOk(calls) == \A c \in calls : c.out = "ok"

NoArg == [id |-> None, id2 |-> None, sel |-> << >>, name |-> ""]

Selections == UNION {[1..n -> FileIds] : n \in 0..cfg.sel}

(***************************************************************************)
(* State machine.  `last` records the last handler call: its name, caller, *)
(* arguments, return value, the provider calls it issued, and whether it   *)
(* repeats the previous call (same handler, caller, id and selection) that *)
(* returned normally with every provider call succeeding.  `dual` is set   *)
(* by Delete VectorStore when, before the call, a Thread of the caller     *)
(* referenced the store both directly and through an Assistant bound to it.*)
(***************************************************************************)
FootIdle == text = << >> /\ anns = << >> /\ fpc = "idle" /\ saved = << >>

\* no chat turn has been started: pc is the position in handle_chat_interface,
\* mode the way the run is executed, status the run's status as last read,
\* polls the status checks made, base the Messages present when the prompt
\* arrived, append the outcome of forwarding the prompt, err whether st.error
\* was called
\* no session is inside create_vector_store: sel is the selection both
\* sessions pass, overlap whether one session scanned while the other was
\* between its scan and its return, p each session's position, the store it
\* created, the files still to attach and the value returned
NoRace ==
  [sel |-> << >>, overlap |-> FALSE,
   p |-> [i \in {1, 2} |-> [pc |-> "idle", vid |-> None, todo |-> << >>,
                             ret |-> None]]]

NoChat ==
  [pc |-> "idle", mode |-> "poll", thread |-> None, status |-> "none",
   polls |-> 0, base |-> {}, append |-> "none", err |-> FALSE]

\* the scenario of the main specification: one user
MainCfg ==
  [users |-> {"u1"}, files |-> MaxFiles, vs |-> MaxVS, asst |-> MaxAsst,
   threads |-> MaxThreads, msgs |-> MaxMsgs, sel |-> MaxSel, fail |-> MaxFail]

\* the scenario of the dedup specification: one user, room for a second
\* VectorStore
DedupCfg ==
  [users |-> {"u1"}, files |-> MaxFiles, vs |-> DedupMaxVS, asst |-> DedupMaxAsst,
   threads |-> DedupMaxThreads, msgs |-> DedupMaxMsgs, sel |-> MaxSel,
   fail |-> MaxFail]

\* the scenario of the assistant specification: one user, room for a
\* second Assistant
AsstCfg ==
  [users |-> {"u1"}, files |-> AsstMaxFiles, vs |-> MaxVS, asst |-> AsstMaxAsst,
   threads |-> AsstMaxThreads, msgs |-> AsstMaxMsgs, sel |-> MaxSel,
   fail |-> MaxFail]

\* the scenario of the attach specification: one user, one VectorStore,
\* selections of up to two of two files
AttachCfg ==
  [users |-> {"u1"}, files |-> AttachMaxFiles, vs |-> MaxVS, asst |-> AttachMaxOther,
   threads |-> AttachMaxOther, msgs |-> AttachMaxOther, sel |-> AttachMaxSel,
   fail |-> MaxFail]

\* the scenario of the ownership specification: two users, one File, one
\* VectorStore and one Assistant between them
OwnerCfg ==
  [users |-> {"u1", "u2"}, files |-> MaxFiles, vs |-> MaxVS, asst |-> MaxAsst,
   threads |-> OwnerMaxOther, msgs |-> OwnerMaxOther, sel |-> MaxSel,
   fail |-> MaxFail]

\* the scenario of the message specification: one user, two Threads, four
\* Messages, no File, VectorStore or Assistant
MsgCfg ==
  [users |-> {"u1"}, files |-> MsgMaxOther, vs |-> MsgMaxOther, asst |-> MsgMaxOther,
   threads |-> MsgMaxThreads, msgs |-> MsgMaxMsgs, sel |-> MaxSel,
   fail |-> MaxFail]

Start(c) ==
  /\ cfg = c
  /\ w = EmptyWorld
  /\ last = [op |-> "init", user |-> "u1", arg |-> NoArg, ret |-> FALSE,
             calls |-> {}, rep |-> FALSE, dual |-> FALSE]
  /\ FootIdle
  /\ chat = NoChat
  /\ sess = NoRace

Init == Start(MainCfg)

InitDedup == Start(DedupCfg)

InitAsst == Start(AsstCfg)

InitMsg == Start(MsgCfg)

InitOwner == Start(OwnerCfg)

InitAttach == Start(AttachCfg)

\* the scenario of the reuse specification: two users, two VectorStores,
\* selections of up to two entries of one file
ReuseCfg ==
  [users |-> {"u1", "u2"}, files |-> ReuseMaxFiles, vs |-> ReuseMaxVS,
   asst |-> ReuseMaxOther, threads |-> ReuseMaxOther, msgs |-> ReuseMaxOther,
   sel |-> ReuseMaxSel, fail |-> MaxFail]

InitReuse == Start(ReuseCfg)

InBounds(W) ==
  /\ W.nf <= cfg.files + 1
  /\ W.nv <= cfg.vs + 1
  /\ W.na <= cfg.asst + 1
  /\ W.nt <= cfg.threads + 1
  /\ W.nm <= cfg.msgs + 1

\* the handlers that return True / False; the others return an id, None,
\* or raise
BoolOps == {"init", "upload", "save_message", "del_thread", "del_asst",
            "del_vs", "del_file", "remove_user"}

Normal(l) ==
  /\ AllOk(l.calls)
  /\ IF l.op \in BoolOps THEN l.ret = TRUE
     ELSE IF l.op = "get_messages" THEN TRUE
     ELSE l.ret \notin {None, Raised}

DualThread(W, vid, user) ==
  \E t \in W.threads, a \in W.assistants :
    /\ t.user = user /\ t.vs = vid
    /\ a.user = user /\ a.vs = vid /\ t.asst = a.id

Step(op, user, arg, r) ==
  /\ InBounds(r.w)
  /\ w' = r.w
  /\ last' = [op |-> op, user |-> user, arg |-> arg, ret |-> r.ret,
              calls |-> r.calls,
              rep |-> /\ last.op = op
                      /\ last.user = user
                      /\ last.arg.id = arg.id
                      /\ last.arg.sel = arg.sel
                      /\ Normal(last),
              dual |-> op = "del_vs" /\ DualThread(w, arg.id, user)]
  /\ UNCHANGED <<cfg, text, anns, fpc, saved, chat, sess>>

X0 == [w |-> w, calls |-> {}]

\* what datetime.now can read: the time of the previous reading or a later one
Clock == {w.clock, w.clock + 1}

\* one handler run r under the oracle O
Do(op, user, arg, O, r) == Met(O, r) /\ Step(op, user, arg, r)

UploadFile ==
  \E u \in Users : \E O \in Oracles(Keys({"upload"}, {w.nf}, {1})) :
    Do("upload", u, NoArg, O,
       handle_file_upload(X0, O, u))

CreateVectorStore ==
  \E u \in Users, name \in VSNames, sel \in Selections :
    \E O \in Oracles(Keys({"list"}, Ids(w.vstores), {1})
                     \cup Keys({"create_vs"}, {w.nv}, {1})
                     \cup Keys({"attach"}, Range(sel), 1..cfg.sel)) :
      Do("create_vs", u, [NoArg EXCEPT !.sel = sel, !.name = name], O,
         create_vector_store(X0, O, name, sel, u))

CreateAssistant ==
  \E u \in Users, name \in AsstNameArgs, vid \in VSArgs :
    \E O \in Oracles(Keys({"create_asst"}, {w.na}, {1})) :
      Do("create_asst", u, [NoArg EXCEPT !.id = vid, !.name = name], O,
         create_assistant(X0, O, name, vid, u))

CreateThread ==
  \E u \in Users, aid \in {None} \cup AsstIds, vid \in {None} \cup VSIds :
    \E O \in Oracles(Keys({"create_thread"}, {w.nt}, {1})) :
      Do("create_thread", u, [NoArg EXCEPT !.id = vid, !.id2 = aid], O,
         create_thread(X0, O, aid, vid, u))

SaveMessage ==
  \E tid \in ThreadArgs, role \in {"user", "assistant"}, now \in Clock :
    Step("save_message", "u1", [NoArg EXCEPT !.id = tid, !.name = role],
         save_message(X0, tid, role, now))

GetMessages ==
  \E tid \in ThreadArgs : \E r \in get_messages(w, tid) :
    Step("get_messages", "u1", [NoArg EXCEPT !.id = tid], Ret(w, {}, r))

DeleteThread ==
  \E tid \in ThreadArgs : \E O \in Oracles(Keys({"del_thread"}, {tid}, {1})) :
    Do("del_thread", "u1", [NoArg EXCEPT !.id = tid], O,
       delete_thread(X0, O, tid))

CascadeKeys ==
  Keys({"del_thread"}, Ids(w.threads), {1, 2})
    \cup Keys({"del_asst"}, Ids(w.assistants), {1})
    \cup Keys({"del_vs"}, Ids(w.vstores), {1})

DeleteAssistant ==
  \E u \in Users, aid \in AsstArgs : \E O \in Oracles(CascadeKeys) :
    Do("del_asst", u, [NoArg EXCEPT !.id = aid], O,
       delete_assistant(X0, O, aid, u))

DeleteVectorStore ==
  \E u \in Users, vid \in VSArgs : \E O \in Oracles(CascadeKeys) :
    Do("del_vs", u, [NoArg EXCEPT !.id = vid], O,
       delete_vector_store(X0, O, vid, u))

DeleteFile ==
  \E u \in Users, fid \in FileArgs :
    \E O \in Oracles(CascadeKeys
                     \cup Keys({"list"}, Ids(w.vstores), {1, 2})
                     \cup Keys({"detach"}, Ids(w.vstores), {1})
                     \cup Keys({"del_file"}, {fid}, {1})) :
      Do("del_file", u, [NoArg EXCEPT !.id = fid], O,
         delete_file(X0, O, fid, u))

Next ==
  \/ UploadFile
  \/ CreateVectorStore
  \/ CreateAssistant
  \/ CreateThread
  \/ SaveMessage
  \/ GetMessages
  \/ DeleteThread
  \/ DeleteAssistant
  \/ DeleteVectorStore
  \/ DeleteFile

Spec == Init /\ [][Next]_vars

SpecDedup == InitDedup /\ [][Next]_vars

SpecAsst == InitAsst /\ [][Next]_vars

SpecMsg == InitMsg /\ [][Next]_vars

SpecOwner == InitOwner /\ [][Next]_vars

SpecAttach == InitAttach /\ [][Next]_vars

SpecReuse == InitReuse /\ [][Next]_vars

(***************************************************************************)
(* models.py: the removal of a User document.  File.user, VectorStore.user,*)
(* Assistant.user and Thread.user are declared reverse_delete_rule=CASCADE,*)
(* and so is Message.thread: the documents that reference the User are     *)
(* deleted with it, and the Messages of the deleted Threads with them.     *)
(* Assistant.vector_store and Thread.vector_store declare no rule.         *)
(***************************************************************************)
\* variant: Message.thread declares no delete rule
remove_user_keep_messages(W, user) ==
  [W EXCEPT !.files = {x \in @ : x.user # user},
            !.vstores = {x \in @ : x.user # user},
            !.assistants = {x \in @ : x.user # user},
            !.threads = {x \in @ : x.user # user}]

remove_user(W, user) ==
  [W EXCEPT !.files = {x \in @ : x.user # user},
            !.vstores = {x \in @ : x.user # user},
            !.assistants = {x \in @ : x.user # user},
            !.threads = {x \in @ : x.user # user},
            !.messages = {m \in @ : \A t \in W.threads :
                                      t.id = m.thread => t.user # user}]

\* the scenario of the removal specification: two users, one resource of
\* each kind between them, every provider call succeeding
RemoveCfg ==
  [users |-> {"u1", "u2"}, files |-> MaxFiles, vs |-> MaxVS, asst |-> MaxAsst,
   threads |-> MaxThreads, msgs |-> MaxMsgs, sel |-> MaxSel,
   fail |-> RemoveMaxFail]

InitRemove == Start(RemoveCfg)

RemoveUser ==
  \E u \in Users :
    Step("remove_user", u, NoArg, Ret(remove_user(w, u), {}, TRUE))

NextRemove == Next \/ RemoveUser

SpecRemove == InitRemove /\ [][NextRemove]_vars

(***************************************************************************)
(* Observations on the last handler call.                                  *)
(***************************************************************************)
OkCall(l, op, id) == \E c \in l.calls : c.op = op /\ c.id = id /\ c.out = "ok"

FailedCall(l, op, id) ==
  \E c \in l.calls : c.op = op /\ c.id = id /\ c.out \in {"soft", "raise"}

\* no local Assistant or Thread references store v and v has no local record
Unreferenced(W, v) ==
  /\ \A a \in W.assistants : a.vs # v
  /\ \A t \in W.threads : t.vs # v
  /\ v \notin Ids(W.vstores)

(***************************************************************************)
(* C1  Cascade completeness: whenever Delete VectorStore(vs, user) returns *)
(* success, no local Assistant references vs, no local Thread references   *)
(* vs and the local VectorStore record of vs is absent.                    *)
(***************************************************************************)
C1_CascadeCompleteness ==
  (last.op = "del_vs" /\ last.ret = TRUE) => Unreferenced(w, last.arg.id)

(***************************************************************************)
(* C3  Failure non-corruption of Delete Thread: when the provider reports  *)
(* the Thread as not deleted, or the call raises, Delete Thread returns    *)
(* failure and the local Thread records and Messages are as before.        *)
(***************************************************************************)
C3_DeleteThreadNonCorruption ==
  [][(last'.op = "del_thread" /\ FailedCall(last', "del_thread", last'.arg.id))
       => (last'.ret = FALSE /\ w'.threads = w.threads /\ w'.messages = w.messages)]_vars

\* a failed Delete Thread on a Thread that holds a Message
C3_Witness ==
  /\ last.op = "del_thread"
  /\ FailedCall(last, "del_thread", last.arg.id)
  /\ \E m \in w.messages : m.thread = last.arg.id

(***************************************************************************)
(* C5  Aggregated cascade result: Delete VectorStore, Delete Assistant and *)
(* Delete File return success only if every sub-step of the cascade (each  *)
(* provider call issued by the call and its nested deletions) succeeded.   *)
(***************************************************************************)
C5_AggregatedResult ==
  (last.op \in {"del_vs", "del_asst", "del_file"} /\ last.ret = TRUE)
    => AllOk(last.calls)

(***************************************************************************)
(* C4  Cascade on last file.  As claimed: for every VectorStore whose      *)
(* remote membership is exactly the file f, a Delete File(f, user) call on *)
(* an existing File of the user leaves the store removed remotely and      *)
(* locally, with every Assistant bound to it and every Thread referencing  *)
(* it or one of those Assistants.                                          *)
(***************************************************************************)
OwnsFile(W, fid, user) == \E f \in W.files : f.id = fid /\ f.user = user

\* store v of W0 and its dependents are gone in W1
StoreRemoved(W0, W1, v) ==
  /\ v \notin Ids(W1.vstores)
  /\ v \notin Ids(W1.rvs)
  /\ \A a \in W1.assistants : a.vs # v
  /\ \A t \in W1.threads :
       /\ t.vs # v
       /\ \A a \in W0.assistants : a.vs = v => t.asst # a.id

\* the same, for the dependents owned by the user
OwnStoreRemoved(W0, W1, v, user) ==
  /\ v \notin Ids(W1.vstores)
  /\ v \notin Ids(W1.rvs)
  /\ \A a \in W1.assistants : ~(a.user = user /\ a.vs = v)
  /\ \A t \in W1.threads : t.user = user =>
       /\ t.vs # v
       /\ \A a \in W0.assistants : (a.user = user /\ a.vs = v) => t.asst # a.id

C6_RemoteBeforeLocal ==
  [][/\ \A f \in w.files \ w'.files : OkCall(last', "del_file", f.id)
     /\ \A v \in w.vstores \ w'.vstores : OkCall(last', "del_vs", v.id)
     /\ \A a \in w.assistants \ w'.assistants : OkCall(last', "del_asst", a.id)
     /\ (last'.op = "del_file" /\ FailedCall(last', "del_file", last'.arg.id))
          => (last'.ret = FALSE /\ OwnsFile(w', last'.arg.id, last'.user))
     /\ (last'.op = "del_vs" /\ FailedCall(last', "del_vs", last'.arg.id))
          => (last'.ret = FALSE
              /\ \E v \in w'.vstores : v.id = last'.arg.id /\ v.user = last'.user)
     /\ (last'.op = "del_asst" /\ FailedCall(last', "del_asst", last'.arg.id))
          => (last'.ret = FALSE
              /\ \E a \in w'.assistants : a.id = last'.arg.id /\ a.user = last'.user)
    ]_vars

\* a Delete Assistant whose provider deletion failed after its cascade
\* removed a Thread
C6_Witness ==
  /\ last.op = "del_asst"
  /\ FailedCall(last, "del_asst", last.arg.id)
  /\ \E c \in last.calls : c.op = "del_thread" /\ c.out = "ok"
  /\ last.arg.id \in Ids(w.assistants)

(***************************************************************************)
(* C7  Assistant dedup: when Create Assistant has returned an id for       *)
(* (user, vector_store_id), the next Create Assistant call with the same   *)
(* (user, vector_store_id) returns the same id, issues no provider call    *)
(* and changes no local record, whatever name it is given.                 *)
(***************************************************************************)
C7_AssistantDedup ==
  [][(/\ last.op = "create_asst" /\ last.ret # Raised
      /\ last'.op = "create_asst"
      /\ last'.user = last.user
      /\ last'.arg.id = last.arg.id)
       => (last'.ret = last.ret /\ last'.calls = {} /\ w' = w)]_vars

\* a repeated Create Assistant that passed a name other than the existing
\* Assistant's
C7_Witness ==
  /\ last.op = "create_asst" /\ last.rep
  /\ \E a \in w.assistants : a.id = last.ret /\ a.name # last.arg.name

(***************************************************************************)
(* C9  Not-found is non-fatal: Delete Thread on an id with no local record *)
(* returns failure without a provider call and without changing any state; *)
(* Delete VectorStore on a store of the caller always reaches the store's  *)
(* own provider deletion, whose outcome alone decides the result, and with *)
(* a Thread reachable both through a bound Assistant and directly it       *)
(* succeeds when every provider call succeeds.                             *)
(***************************************************************************)
C9_NotFoundNonFatal ==
  [][/\ (last'.op = "del_thread" /\ last'.arg.id \notin Ids(w.threads))
          => (last'.ret = FALSE /\ last'.calls = {} /\ w' = w)
     /\ (last'.op = "del_vs"
         /\ \E v \in w.vstores : v.id = last'.arg.id /\ v.user = last'.user)
          => /\ \E c \in last'.calls : c.op = "del_vs" /\ c.id = last'.arg.id
             /\ last'.ret = OkCall(last', "del_vs", last'.arg.id)
     /\ (last'.op = "del_vs" /\ last'.dual /\ AllOk(last'.calls))
          => (last'.ret = TRUE /\ Unreferenced(w', last'.arg.id))
    ]_vars

\* a successful Delete VectorStore of a store with a Thread reachable both
\* ways
C9_Witness ==
  last.op = "del_vs" /\ last.dual /\ last.ret = TRUE /\ AllOk(last.calls)

(***************************************************************************)
(* ui.py / main.py: handle_chat_interface, the annotation pass.  Strings   *)
(* are sequences of characters.  `text` is the assistant's response,       *)
(* `anns` the matched texts of its annotations, `saved` the content passed *)
(* to save_message.                                                        *)
(***************************************************************************)
RECURSIVE Digits(_)
\* str(index) of the f-string
Digits(n) ==
  LET d == <<"0", "1", "2", "3", "4", "5", "6", "7", "8", "9">>[(n % 10) + 1]
  IN IF n < 10 THEN <<d>> ELSE Digits(n \div 10) \o <<d>>

\* variant: enumerate(annotations) without start=1
Marker_from_zero(index) ==
  <<" ", "<", "s", "u", "p", ">", "[">> \o Digits(index - 1)
    \o <<"]", "<", "/", "s", "u", "p", ">">>

\* f' <sup>[{index}]</sup>'
Marker(index) ==
  <<" ", "<", "s", "u", "p", ">", "[">> \o Digits(index)
    \o <<"]", "<", "/", "s", "u", "p", ">">>

\* `new` before every character of s and at the end
Interleave(s, new) ==
  LET m == Len(new)
      n == Len(s)
  IN [k \in 1..((n + 1) * m + n) |->
        IF (k - 1) % (m + 1) < m THEN new[((k - 1) % (m + 1)) + 1]
        ELSE s[((k - 1) \div (m + 1)) + 1]]

\* the positions of s where `old` occurs
Matches(s, old) ==
  {i \in 1..(Len(s) - Len(old) + 1) : SubSeq(s, i, i + Len(old) - 1) = old}

RECURSIVE Taken(_, _, _)
\* the occurrences replaced: leftmost first, none overlapping one before it
Taken(M, from, L) ==
  LET later == {i \in M : i >= from} IN
  IF later = {} THEN << >>
  ELSE <<Min(later)>> \o Taken(M, Min(later) + L, L)

RECURSIVE Rebuild(_, _, _, _, _)
Rebuild(s, taken, pos, L, new) ==
  IF taken = << >> THEN SubSeq(s, pos, Len(s))
  ELSE SubSeq(s, pos, Head(taken) - 1) \o new
         \o Rebuild(s, Tail(taken), Head(taken) + L, L, new)

\* str.replace(old, new): every non-overlapping occurrence, left to right;
\* an empty `old` matches before every character and at the end
Replace(s, old, new) ==
  IF old = << >> THEN Interleave(s, new)
  ELSE Rebuild(s, Taken(Matches(s, old), 1, Len(old)), 1, Len(old), new)

RECURSIVE Footnoted(_, _, _)
\* for index, annotation in enumerate(annotations, start=1): ... replace
Footnoted(s, as, index) ==
  IF as = << >> THEN s
  ELSE Footnoted(Replace(s, Head(as), Marker(index)), Tail(as), index + 1)

ParisText ==
  <<"P", "a", "r", "i", "s", " ", "i", "s", " ", "t", "h", "e", " ", "c",
    "a", "p", "i", "t", "a", "l", " ", "[", "c", "i", "t", "e", ":", "A",
    "]", " ", "a", "n", "d", " ", "h", "a", "s", " ", "a", " ", "p", "o",
    "p", "u", "l", "a", "t", "i", "o", "n", " ", "[", "c", "i", "t", "e",
    ":", "B", "]">>

CiteA ==
  <<"[", "c", "i", "t", "e", ":", "A", "]">>

CiteB ==
  <<"[", "c", "i", "t", "e", ":", "B", "]">>

ParisAnns == <<CiteA, CiteB>>

Alphabet == {"a", "b"}

SeqsUpTo(S, lo, hi) == UNION {[1..n -> S] : n \in lo..hi}

Texts == {ParisText} \cup SeqsUpTo(Alphabet, 0, MaxTextLen)

AnnTexts == {CiteA, CiteB} \cup SeqsUpTo(Alphabet, 1, MaxAnnLen)

AnnLists == SeqsUpTo(AnnTexts, 0, MaxAnns)

InitFoot ==
  /\ cfg = MainCfg
  /\ w = EmptyWorld
  /\ last = [op |-> "init", user |-> "u1", arg |-> NoArg, ret |-> FALSE,
             calls |-> {}, rep |-> FALSE, dual |-> FALSE]
  /\ text \in Texts
  /\ anns \in AnnLists
  /\ fpc = "received"
  /\ saved = << >>
  /\ chat = NoChat
  /\ sess = NoRace

\* the annotation loop followed by save_message(thread_id, 'assistant', ...)
AnnotateAndSave ==
  /\ fpc = "received"
  /\ saved' = Footnoted(text, anns, 1)
  /\ fpc' = "saved"
  /\ UNCHANGED <<cfg, w, last, text, anns, chat, sess>>

NextFoot == AnnotateAndSave

SpecFoot == InitFoot /\ [][NextFoot]_vars

(***************************************************************************)
(* utils.py: save_user, get_or_create_user_from_google.  An email is       *)
(* [local, domain]; a username is the string of characters before the '@', *)
(* possibly followed by a counter.                                         *)
(***************************************************************************)
Locals == {<<"a">>, <<"a", "1">>}

Emails == [local : Locals, domain : 1..MaxDomains]

\* Python's None where a User document is expected
NoneUser == [username |-> << >>, email |-> [local |-> << >>, domain |-> None]]

\* the function has no return statement: the caller receives None
save_user(U, username, email) ==
  IF ~(\E u \in U : u.username = username)
  THEN [users |-> U \cup {[username |-> username, email |-> email]},
        ret |-> NoneUser]
  ELSE [users |-> U, ret |-> NoneUser]

RECURSIVE FreeUsername(_, _, _, _)
\* while User.objects(username=username).first():
\*     username = f"{base_username}{counter}"; counter += 1
FreeUsername(U, base_username, username, counter) ==
  IF \E u \in U : u.username = username
  THEN FreeUsername(U, base_username, base_username \o Digits(counter),
                    counter + 1)
  ELSE username

get_or_create_user_from_google(U, email) ==
  IF \E u \in U : u.email = email
  THEN [users |-> U, ret |-> CHOOSE u \in U : u.email = email]
  ELSE save_user(U, FreeUsername(U, email.local, email.local, 1), email)

\* main(): current_user = get_or_create_user_from_google(user_email, ...)
Login ==
  \E email \in Emails :
    LET r == get_or_create_user_from_google(w.users, email) IN
    /\ w' = [w EXCEPT !.users = r.users]
    /\ last' = [last EXCEPT !.op = "login", !.arg = [NoArg EXCEPT !.name = email],
                            !.ret = r.ret]
    /\ UNCHANGED <<cfg, text, anns, fpc, saved, chat, sess>>

NextUser == Login

SpecUser == Init /\ [][NextUser]_vars

(***************************************************************************)
(* utils.py: create_vector_store run by two sessions of one user with the  *)
(* same selection.  One step per blocking stretch of the handler: the      *)
(* dedup scan, the provider's create with the local save, each attach.     *)
(* Every provider call succeeds.                                           *)
(***************************************************************************)
NoFailure == [F |-> {}, fk |-> "raise"]

RaceUser == "u1"

\* the scenario of the race specification: one user, two files, room for
\* two VectorStores
RaceCfg ==
  [users |-> {RaceUser}, files |-> RaceMaxFiles, vs |-> RaceMaxVS,
   asst |-> RaceMaxOther, threads |-> RaceMaxOther, msgs |-> RaceMaxOther,
   sel |-> RaceMaxSel, fail |-> RaceMaxOther]

InitRace ==
  /\ cfg = RaceCfg
  /\ w = EmptyWorld
  /\ last = [op |-> "init", user |-> "u1", arg |-> NoArg, ret |-> FALSE,
             calls |-> {}, rep |-> FALSE, dual |-> FALSE]
  /\ FootIdle
  /\ chat = NoChat
  /\ \E sel \in Selections \ {<< >>} : sess = [NoRace EXCEPT !.sel = sel]

Other(i) == 3 - i

\* lines 130-144: the scan returns the matching store, or falls through
RaceScan(i) ==
  LET s == ScanStores(X0, NoFailure, UserStores(w, RaceUser), sess.sel) IN
  /\ sess.p[i].pc = "idle"
  /\ sess' = [sess EXCEPT
                !.overlap = @ \/ sess.p[Other(i)].pc \in {"scanned", "created"},
                !.p[i].pc = IF s.found # None THEN "done" ELSE "scanned",
                !.p[i].ret = s.found]
  /\ UNCHANGED <<cfg, w, last, text, anns, fpc, saved, chat>>

\* lines 147-157: client.beta.vector_stores.create, new_vector_store.save()
RaceCreate(i) ==
  /\ sess.p[i].pc = "scanned"
  /\ w.nv <= cfg.vs
  /\ w' = [w EXCEPT !.rvs = @ \cup {[id |-> w.nv, files |-> {}]},
                    !.nv = @ + 1,
                    !.vstores = @ \cup
                       {[id |-> w.nv, name |-> "v1", user |-> RaceUser]}]
  /\ sess' = [sess EXCEPT !.p[i].pc = "created", !.p[i].vid = w.nv,
                          !.p[i].todo = sess.sel]
  /\ UNCHANGED <<cfg, last, text, anns, fpc, saved, chat>>

\* lines 161-163: one round of create_vector_store_files' loop, and the
\* return after the last
RaceAttach(i) ==
  /\ sess.p[i].pc = "created"
  /\ w' = create_vector_store_files(X0, NoFailure, sess.p[i].vid,
                                    <<Head(sess.p[i].todo)>>).w
  /\ sess' = [sess EXCEPT
                !.p[i].todo = Tail(@),
                !.p[i].pc = IF Tail(sess.p[i].todo) = << >> THEN "done" ELSE @,
                !.p[i].ret = IF Tail(sess.p[i].todo) = << >> THEN sess.p[i].vid
                             ELSE @]
  /\ UNCHANGED <<cfg, last, text, anns, fpc, saved, chat>>

NextRace ==
  \/ UploadFile
  \/ \E i \in {1, 2} : RaceScan(i)
  \/ \E i \in {1, 2} : RaceCreate(i)
  \/ \E i \in {1, 2} : RaceAttach(i)

SpecRace == InitRace /\ [][NextRace]_vars

(***************************************************************************)
(* The chat turn: handle_chat_interface of ui.py (the run is streamed) and *)
(* of main.py (the run is created and polled).  One step per blocking      *)
(* call of the handler.  The provider answers a status check with          *)
(* in_progress at most MaxPolls times; after that the run has a terminal   *)
(* status (the provider expires a run that does not finish).               *)
(***************************************************************************)
Modes == {"poll", "stream"}

TerminalStatuses == {"completed", "failed", "cancelled", "expired"}

\* the positions at which handle_chat_interface has returned
Ended == {"done", "failed", "error"}

\* the scenario of the chat specification: one Thread, room for two turns
ChatCfg == [MainCfg EXCEPT !.msgs = ChatMaxMsgs]

\* the selected Thread: created by create_thread, every provider call
\* succeeding
ChatThread ==
  create_thread([w |-> EmptyWorld, calls |-> {}], [F |-> {}, fk |-> "raise"],
                None, None, "u1")

InitChat ==
  /\ cfg = ChatCfg
  /\ w = ChatThread.w
  /\ last = [op |-> "init", user |-> "u1", arg |-> NoArg, ret |-> FALSE,
             calls |-> {}, rep |-> FALSE, dual |-> FALSE]
  /\ FootIdle
  /\ \E m \in Modes : chat = [NoChat EXCEPT !.mode = m, !.thread = ChatThread.ret]
  /\ sess = NoRace

\* variant: the except branch does not return
AfterAppend_continue(out) == "appended"

\* where the handler stands after client.beta.threads.messages.create
AfterAppend(out) == IF out = "ok" THEN "appended" ELSE "error"

\* variant: the run's status is not looked at
AfterRun_any(status) == "listing"

\* if run.status != 'completed': st.error(...); return
AfterRun(status) == IF status = "completed" THEN "listing" ELSE "failed"

\* if prompt := st.chat_input(...): save_message(thread_id, 'user', prompt)
ChatPrompt ==
  /\ chat.pc \in {"idle"} \cup Ended
  /\ w.nm + 2 <= cfg.msgs + 1
  /\ \E now \in Clock : w' = save_message(X0, chat.thread, "user", now).w
  /\ chat' = [chat EXCEPT !.pc = "user_saved", !.status = "none", !.polls = 0,
                          !.base = w.messages, !.append = "none", !.err = FALSE]
  /\ UNCHANGED <<cfg, last, text, anns, fpc, saved, sess>>

\* client.beta.threads.messages.create(thread_id, role='user', content=prompt)
ChatAppend ==
  /\ chat.pc = "user_saved"
  /\ \E out \in {"ok", "raise"} :
       chat' = [chat EXCEPT !.append = out, !.pc = AfterAppend(out),
                            !.err = (out = "raise")]
  /\ UNCHANGED <<cfg, w, last, text, anns, fpc, saved, sess>>

\* the run is submitted: runs.create(..., stream=True) in ui.py, the first
\* half of runs.create_and_poll in main.py
ChatRun ==
  /\ chat.pc = "appended"
  /\ \E out \in {"ok", "raise"} :
       chat' = IF out = "ok"
               THEN [chat EXCEPT !.status = "queued",
                                 !.pc = IF chat.mode = "poll" THEN "polling"
                                        ELSE "streaming"]
               ELSE [chat EXCEPT !.pc = "error", !.err = TRUE]
  /\ UNCHANGED <<cfg, w, last, text, anns, fpc, saved, sess>>

\* one status check of create_and_poll, and the test of run.status once the
\* status is terminal
ChatPoll ==
  /\ chat.pc = "polling"
  /\ \E a \in TerminalStatuses \cup {"raise"}
                \cup (IF chat.polls < MaxPolls THEN {"in_progress"} ELSE {}) :
       chat' = IF a = "raise" THEN [chat EXCEPT !.pc = "error", !.err = TRUE]
               ELSE IF a = "in_progress"
               THEN [chat EXCEPT !.status = a, !.polls = @ + 1]
               ELSE [chat EXCEPT !.status = a, !.polls = @ + 1,
                                 !.pc = AfterRun(a), !.err = (a # "completed")]
  /\ UNCHANGED <<cfg, w, last, text, anns, fpc, saved, sess>>

\* for event in stream: ... until the stream ends, whatever the run's
\* status then is, or raises
ChatStream ==
  /\ chat.pc = "streaming"
  /\ \E a \in TerminalStatuses \cup {"raise"} :
       chat' = IF a = "raise" THEN [chat EXCEPT !.pc = "error", !.err = TRUE]
               ELSE [chat EXCEPT !.status = a, !.pc = "listing"]
  /\ UNCHANGED <<cfg, w, last, text, anns, fpc, saved, sess>>

\* messages.list, the annotation loop and save_message(thread_id,
\* 'assistant', ...), all in one try
ChatList ==
  /\ chat.pc = "listing"
  /\ \/ /\ \E now \in Clock :
            w' = save_message(X0, chat.thread, "assistant", now).w
        /\ chat' = [chat EXCEPT !.pc = "done"]
     \/ /\ w' = w
        /\ chat' = [chat EXCEPT !.pc = "error", !.err = TRUE]
  /\ UNCHANGED <<cfg, last, text, anns, fpc, saved, sess>>

\* the calls of one turn after the prompt was saved: each blocks and returns
ChatTurn == ChatAppend \/ ChatRun \/ ChatPoll \/ ChatStream \/ ChatList

NextChat == ChatPrompt \/ ChatTurn

SpecChat == InitChat /\ [][NextChat]_vars /\ WF_vars(ChatTurn)

(***************************************************************************)
(* C2  Dedup idempotence.  As claimed: two successive Create VectorStore   *)
(* calls of one user with the same non-empty file-ID set F return the same *)
(* id, and afterwards exactly one local VectorStore record and exactly one *)
(* remote VectorStore exist for F.                                         *)
(***************************************************************************)
NoDup(sel) == Cardinality(Range(sel)) = Len(sel)

\* the user's recorded stores whose remote membership is F
StoresWith(W, F, user) ==
  {v \in W.vstores : v.user = user /\ v.id \in Ids(W.rvs) /\ Members(W, v.id) = F}

SameCreateVS ==
  /\ last.op = "create_vs" /\ last'.op = "create_vs"
  /\ last'.user = last.user
  /\ last'.arg.sel = last.arg.sel
  /\ Len(last.arg.sel) > 0 /\ NoDup(last.arg.sel)

C8_OneAssistantPerStore ==
  /\ \A a, b \in w.assistants : (a.user = b.user /\ a.vs = b.vs) => a.id = b.id
  /\ \A a, b \in w.rassts : (a.by = b.by /\ a.vs = b.vs) => a.id = b.id

(***************************************************************************)
(* C10  Footnote determinism.  As claimed: for the text "Paris is the      *)
(* capital [cite:A] and has a population [cite:B]" with the annotations    *)
(* "[cite:A]", "[cite:B]", the text persisted as the assistant Message is  *)
(* "Paris is the capital <sup>[1]</sup> and has a population               *)
(* <sup>[2]</sup>".                                                        *)
(***************************************************************************)
ParisClaimed ==
  <<"P", "a", "r", "i", "s", " ", "i", "s", " ", "t", "h", "e", " ", "c",
    "a", "p", "i", "t", "a", "l", " ", "<", "s", "u", "p", ">", "[", "1",
    "]", "<", "/", "s", "u", "p", ">", " ", "a", "n", "d", " ", "h", "a",
    "s", " ", "a", " ", "p", "o", "p", "u", "l", "a", "t", "i", "o", "n",
    " ", "<", "s", "u", "p", ">", "[", "2", "]", "<", "/", "s", "u", "p",
    ">">>

ParisStored ==
  <<"P", "a", "r", "i", "s", " ", "i", "s", " ", "t", "h", "e", " ", "c",
    "a", "p", "i", "t", "a", "l", " ", " ", "<", "s", "u", "p", ">", "[",
    "1", "]", "<", "/", "s", "u", "p", ">", " ", "a", "n", "d", " ", "h",
    "a", "s", " ", "a", " ", "p", "o", "p", "u", "l", "a", "t", "i", "o",
    "n", " ", " ", "<", "s", "u", "p", ">", "[", "2", "]", "<", "/", "s",
    "u", "p", ">">>

ParisSaved == fpc = "saved" /\ text = ParisText /\ anns = ParisAnns

C10_FootnoteClaimed == ParisSaved => saved = ParisClaimed

(***************************************************************************)
(* C10 amended: the persisted text has each marker preceded by the space   *)
(* the replacement string starts with, after the space of the text:        *)
(* "Paris is the capital  <sup>[1]</sup> and has a population              *)
(* <sup>[2]</sup>" with two spaces before each "<sup>".                    *)
(***************************************************************************)
C10_FootnoteStored == ParisSaved => saved = ParisStored

C10_Witness == ParisSaved

(***************************************************************************)
(* C11  Sequential footnoting: for a response text made of the annotated   *)
(* spans a1..ak in order (the spans need not be pairwise distinct), the    *)
(* stored text contains the markers [1], [2], ..., [k] in order of         *)
(* appearance and none of the annotations' texts remains.                  *)
(***************************************************************************)
RECURSIVE Concat(_)
Concat(ss) == IF ss = << >> THEN << >> ELSE Head(ss) \o Concat(Tail(ss))

\* the number of the marker that starts at position i of s, or None
MarkerAt(s, i) ==
  LET ns == {n \in 1..(MaxAnns + 1) : i \in Matches(s, Marker(n))}
  IN IF ns = {} THEN None ELSE Min(ns)

\* the numbers of the markers of s, in order of appearance
MarkerNumbers(s) ==
  LET at == SortedSeq({i \in 1..Len(s) : MarkerAt(s, i) # None})
  IN [k \in 1..Len(at) |-> MarkerAt(s, at[k])]

\* the response text is exactly its annotated spans, in the annotations' order
AnnotatedSpans == fpc = "saved" /\ Len(anns) > 0 /\ text = Concat(anns)

C11_SequentialFootnoting ==
  AnnotatedSpans
    => /\ MarkerNumbers(saved) = [i \in 1..Len(anns) |-> i]
       /\ \A i \in 1..Len(anns) : Matches(saved, anns[i]) = {}

(***************************************************************************)
(* C12  Message ordering: Get Messages returns the Messages of the Thread, *)
(* all of them and no other, in ascending creation-time order; Messages    *)
(* saved by successive Save Message calls at strictly increasing times are *)
(* returned in the order of their insertion.                               *)
(***************************************************************************)
GotMessages == last.op = "get_messages"

StrictTimes(s) == \A i, j \in 1..Len(s) : i # j => s[i].at # s[j].at

C12_MessageOrdering ==
  GotMessages
    => /\ Ascending(last.ret)
       /\ Range(last.ret) = {m \in w.messages : m.thread = last.arg.id}
       /\ Len(last.ret) = Cardinality(Range(last.ret))
       /\ StrictTimes(last.ret)
            => \A i, j \in 1..Len(last.ret) : i < j => last.ret[i].n < last.ret[j].n

\* three Messages saved at t1 < t2 < t3 in the Thread asked for, and a
\* Message of another Thread
C12_Witness ==
  /\ GotMessages /\ Len(last.ret) = 3 /\ StrictTimes(last.ret)
  /\ \E m \in w.messages : m.thread # last.arg.id

(***************************************************************************)
(* C13  Create Thread leaves no partial record: when the provider's Thread *)
(* creation fails, Create Thread returns None and no local record changes; *)
(* in every reachable state each local Thread record carries the id of a   *)
(* Thread the provider created.                                            *)
(***************************************************************************)
\* the Thread ids the provider has handed out
CreatedThreads(W) == 1..(W.nt - 1)

C13_NoPartialThread ==
  /\ [](\A t \in w.threads : t.id \in CreatedThreads(w))
  /\ [][(last'.op = "create_thread" /\ ~AllOk(last'.calls))
          => (last'.ret = None /\ w' = w)]_vars

\* a failed Create Thread next to a Thread created before
C13_Witness ==
  /\ last.op = "create_thread" /\ ~AllOk(last.calls) /\ last.ret = None
  /\ w.threads # {}

(***************************************************************************)
(* C14  Create VectorStore precondition: when the selection is empty or    *)
(* names a file id that is not a File record of the caller, Create         *)
(* VectorStore issues no provider create or attach call, creates no local  *)
(* VectorStore record and returns no store id.                             *)
(***************************************************************************)
BadSelection(W, sel, user) ==
  sel = << >> \/ \E f \in Range(sel) : ~OwnsFile(W, f, user)

C14_CreateVSPrecondition ==
  [][(last'.op = "create_vs" /\ BadSelection(w, last'.arg.sel, last'.user))
       => /\ \A c \in last'.calls : c.op \notin {"create_vs", "attach"}
          /\ w'.vstores = w.vstores
          /\ last'.ret = None]_vars

(***************************************************************************)
(* C15  Partial attach does not roll back: in a Create VectorStore call    *)
(* that created a store, every requested attach is attempted whatever the  *)
(* outcome of the others, the call returns the new store's id, the         *)
(* provider's store and its local record both exist, and the store's       *)
(* membership at the provider is exactly the set of file ids whose attach  *)
(* succeeded.                                                              *)
(***************************************************************************)
Attaches(l) == {c \in l.calls : c.op = "attach"}

\* the id of the store the call created, or None
CreatedStore(l) ==
  LET cs == {c.id : c \in {x \in l.calls : x.op = "create_vs" /\ x.out = "ok"}}
  IN IF cs = {} THEN None ELSE Min(cs)

C15_PartialAttach ==
  [][(last'.op = "create_vs" /\ CreatedStore(last') # None)
       => /\ Cardinality(Attaches(last')) = Len(last'.arg.sel)
          /\ last'.ret = CreatedStore(last')
          /\ CreatedStore(last') \in Ids(w'.rvs)
          /\ \E v \in w'.vstores : v.id = CreatedStore(last') /\ v.user = last'.user
          /\ Members(w', CreatedStore(last'))
               = {c.id : c \in {x \in Attaches(last') : x.out = "ok"}}]_vars

\* the first of two attaches failed, the second succeeded
C15_Witness ==
  /\ last.op = "create_vs" /\ CreatedStore(last) # None
  /\ Len(last.arg.sel) = 2
  /\ \E c \in Attaches(last) : c.id = last.arg.sel[1] /\ c.out # "ok"
  /\ \E c \in Attaches(last) : c.id = last.arg.sel[2] /\ c.out = "ok"

(***************************************************************************)
(* C16  Delete preconditions: Delete File, Delete VectorStore and Delete   *)
(* Assistant called with an id that has no local record, or whose local    *)
(* record is owned by another user than the caller, return failure, issue  *)
(* no provider call and change no local record.                            *)
(***************************************************************************)
\* the records of the collection the delete handler `op` looks its target up in
Targets(W, op) ==
  IF op = "del_file" THEN W.files
  ELSE IF op = "del_vs" THEN W.vstores
  ELSE W.assistants

NotOwnTarget(W, l) ==
  /\ l.op \in {"del_file", "del_vs", "del_asst"}
  /\ ~(\E x \in Targets(W, l.op) : x.id = l.arg.id /\ x.user = l.user)

C16_DeletePreconditions ==
  [][NotOwnTarget(w, last') => (last'.ret = FALSE /\ last'.calls = {} /\ w' = w)]_vars

\* Delete Assistant called on an Assistant that another user owns
C16_Witness ==
  /\ last.op = "del_asst" /\ last.ret = FALSE /\ last.calls = {}
  /\ \E a \in w.assistants : a.id = last.arg.id /\ a.user # last.user


(***************************************************************************)
(* C17  Chat turn with failed remote append: once the prompt has been      *)
(* forwarded to the provider's Thread the user Message of the turn is in   *)
(* the local Thread; when forwarding fails the error is shown, the turn    *)
(* has ended, the Messages added by the turn are exactly that user         *)
(* Message, and no run was submitted.                                      *)
(***************************************************************************)
\* the Messages the current turn has added to the local Thread
TurnMessages == {m \in w.messages \ chat.base : m.thread = chat.thread}

OnlyUserMessage ==
  /\ Cardinality(TurnMessages) = 1
  /\ \A m \in TurnMessages : m.role = "user"

C17_FailedAppend ==
  /\ chat.append # "none" => \E m \in TurnMessages : m.role = "user"
  /\ chat.append = "raise" =>
       /\ chat.pc = "error"
       /\ chat.err
       /\ chat.status = "none"
       /\ OnlyUserMessage

\* the append fails in a turn that follows a completed one
C17_Witness ==
  /\ chat.append = "raise"
  /\ \E m \in chat.base : m.role = "assistant"

(***************************************************************************)
(* C18  Poll-to-completion turn: every turn of the polling handler ends;   *)
(* an assistant Message is among the Messages of the turn only if the      *)
(* run's status is completed; a turn whose run ended with another terminal *)
(* status has added exactly its user Message.                              *)
(***************************************************************************)
PollTurn == chat.mode = "poll" /\ chat.pc \notin {"idle"} \cup Ended

UsersWith(W, email) == {u \in W.users : u.email = email}

C19_LoginReturnsUser ==
  last.op = "login" =>
    /\ last.ret # NoneUser
    /\ last.ret.email = last.arg.name
    /\ Cardinality(UsersWith(w, last.arg.name)) = 1

(***************************************************************************)
(* C20  No orphan Messages: in every reachable state every local Message   *)
(* references a Thread that has a local record, and after a Delete Thread  *)
(* that returned success no Message of that Thread is left.                *)
(***************************************************************************)
Orphans(W) == {m \in W.messages : m.thread \notin Ids(W.threads)}

C20_NoOrphanMessages ==
  /\ [](Orphans(w) = {})
  /\ [][(last'.op = "del_thread" /\ last'.ret = TRUE) =>
          \A m \in w'.messages : m.thread # last'.arg.id]_vars

\* a Message had been saved and a Delete Thread that returned success left
\* none
C20_Witness ==
  /\ last.op = "del_thread" /\ last.ret = TRUE
  /\ w.nm > 1
  /\ w.messages = {}

(***************************************************************************)
(* C21  User removal cascade: after the removal of a User no File,         *)
(* VectorStore, Assistant or Thread owned by that user is recorded, and no *)
(* Message of a Thread that user owned before the removal is left.         *)
(***************************************************************************)
OwnedBy(W, user) ==
  {x \in W.files \cup W.vstores \cup W.assistants \cup W.threads : x.user = user}

C21_UserRemovalCascade ==
  /\ [](last.op = "remove_user" => OwnedBy(w, last.user) = {})
  /\ [][last'.op = "remove_user" =>
          \A m \in w'.messages : \A t \in w.threads :
             t.id = m.thread => t.user # last'.user]_vars

\* a Thread the provider still holds and the Message saved for it went with
\* their owner, and the other user's records are kept
C21_Witness ==
  /\ last.op = "remove_user"
  /\ w.rthreads # {} /\ w.threads = {}
  /\ w.nm > 1 /\ w.messages = {}
  /\ \E u \in Users : OwnedBy(w, u) # {}

(***************************************************************************)
(* C22  Create Assistant fails loudly: when the provider's create call     *)
(* answers without an identifier or raises, Create Assistant raises to its *)
(* caller and the local Assistant records are as before.                   *)
(***************************************************************************)
RemoteCreateFailed(l) ==
  l.op = "create_asst" /\ \E c \in l.calls : c.op = "create_asst" /\ c.out # "ok"

C22_CreateAssistantFailsLoudly ==
  [][RemoteCreateFailed(last') =>
       (last'.ret = Raised /\ w'.assistants = w.assistants)]_vars

\* the provider answered without an identifier while an Assistant was
\* already recorded
C22_Witness ==
  /\ last.op = "create_asst"
  /\ \E c \in last.calls : c.op = "create_asst" /\ c.out = "soft"
  /\ last.ret = Raised
  /\ w.assistants # {}

(***************************************************************************)
(* C23  Dedup race: two sessions of one user run Create VectorStore with   *)
(* the same duplicate-free selection, every provider call succeeding.      *)
(* When neither session scanned while the other was between its scan and   *)
(* its return, both return the same id and exactly one store, recorded and *)
(* held by the provider, has that file set; when they overlap, two such    *)
(* stores can result (the witness).                                        *)
(***************************************************************************)
BothDone == \A i \in {1, 2} : sess.p[i].pc = "done"

C23_DedupRace ==
  (BothDone /\ ~sess.overlap /\ NoDup(sess.sel)) =>
     /\ sess.p[1].ret = sess.p[2].ret
     /\ Cardinality(StoresWith(w, Range(sess.sel), RaceUser)) = 1

\* both sessions passed the scan and two stores hold the same two files
C23_Witness ==
  /\ BothDone /\ sess.overlap /\ NoDup(sess.sel)
  /\ Len(sess.sel) = 2
  /\ sess.p[1].ret # sess.p[2].ret
  /\ Cardinality(StoresWith(w, Range(sess.sel), RaceUser)) = 2

(***************************************************************************)
(* C24  Exact-set reuse condition.  As claimed: Create VectorStore returns *)
(* the id of an existing store and creates nothing if and only if some     *)
(* VectorStore of the caller has a remote file set exactly equal (same     *)
(* members, same size) to the request.                                     *)
(***************************************************************************)
\* the call returned a store that was already recorded and created nothing
Reused(W, l, W2) ==
  /\ l.ret \in Ids(W.vstores)
  /\ W2.vstores = W.vstores /\ W2.rvs = W.rvs
  /\ ~(\E c \in l.calls : c.op = "create_vs")

\* the caller's stores whose remote file set equals the request
ExactStores(W, l) ==
  {v \in W.vstores : /\ v.user = l.user
                     /\ v.id \in Ids(W.rvs)
                     /\ Members(W, v.id) = Range(l.arg.sel)
                     /\ Cardinality(Members(W, v.id)) = Len(l.arg.sel)}

SharedStores(W, f, user) ==
  {v \in W.vstores : /\ v.user = user
                     /\ f \in Members(W, v.id)
                     /\ Members(W, v.id) # {f}}

BoundTo(W, vid) ==
  {a \in W.assistants : a.vs = vid} \cup {t \in W.threads : t.vs = vid}

C25_DetachOnly ==
  [][(last'.op = "del_file" /\ last'.ret = TRUE) =>
       \A v \in SharedStores(w, last'.arg.id, last'.user) :
          /\ Members(w', v.id) = Members(w, v.id) \ {last'.arg.id}
          /\ v.id \in Ids(w'.rvs)
          /\ v \in w'.vstores
          /\ BoundTo(w', v.id) = BoundTo(w, v.id)]_vars

(***************************************************************************)
(* C27  No membership of a deleted file.  As claimed: whenever Delete      *)
(* File(f, user) returns success, f is in the remote file set of no        *)
(* VectorStore still recorded for that user.                               *)
(***************************************************************************)
C27_NoMembershipOfDeletedFile ==
  (last.op = "del_file" /\ last.ret = TRUE) =>
     \A v \in w.vstores : v.user = last.user => last.arg.id \notin Members(w, v.id)

(***************************************************************************)
(* C26  Delete Assistant cascade.  As claimed: whenever Delete             *)
(* Assistant(a, user) returns success, every Thread of the user whose      *)
(* assistant_id is a is gone together with its Messages, and a has no      *)
(* local Assistant record.                                                 *)
(***************************************************************************)
ThreadsOf(W, aid, user) == {t \in W.threads : t.asst = aid /\ t.user = user}

C26_DeleteAssistantCascade ==
  [][(last'.op = "del_asst" /\ last'.ret = TRUE) =>
       /\ ThreadsOf(w', last'.arg.id, last'.user) = {}
       /\ \A t \in ThreadsOf(w, last'.arg.id, last'.user) :
             \A m \in w'.messages : m.thread # t.id
       /\ last'.arg.id \notin Ids(w'.assistants)]_vars

(***************************************************************************)
(* C28  No orphan remote Assistant.  As claimed: every remote Assistant a  *)
(* Create Assistant call has created has a local Assistant record with     *)
(* that identifier when the call ends, by return or by raised error.       *)
(***************************************************************************)
C28_NoOrphanRemoteAssistant ==
  [][last'.op = "create_asst" =>
       \A r \in w'.rassts \ w.rassts : r.id \in Ids(w'.assistants)]_vars

(***************************************************************************)
(* C29  Same-owner references.  As claimed: the VectorStore a local        *)
(* Assistant record references is owned by the Assistant's user, and the   *)
(* VectorStore a local Thread record references is owned by the Thread's   *)
(* user.                                                                   *)
(***************************************************************************)
SameOwner(W, recs) ==
  \A x \in recs : \A v \in W.vstores : v.id = x.vs => v.user = x.user

C29_SameOwnerReferences ==
  SameOwner(w, w.assistants) /\ SameOwner(w, w.threads)

(***************************************************************************)
(* C30  Cross-user frame of deletions: a Delete File, Delete VectorStore   *)
(* or Delete Assistant of user u, cascade included, leaves every File,     *)
(* VectorStore, Assistant and Thread record of another user and every      *)
(* Message of another user's Thread as it was, and every delete or detach  *)
(* it sends to the provider names a resource recorded for u.               *)
(***************************************************************************)
\* the records of the users other than u, and the Messages of their Threads
Foreign(W, u) ==
  [files |-> {x \in W.files : x.user # u},
   vstores |-> {x \in W.vstores : x.user # u},
   assistants |-> {x \in W.assistants : x.user # u},
   threads |-> {x \in W.threads : x.user # u},
   messages |-> {m \in W.messages :
                   \E t \in W.threads : t.id = m.thread /\ t.user # u}]

\* the local collection that records the resource a provider call names
Recorded(W, c) ==
  IF c.op = "del_thread" THEN W.threads
  ELSE IF c.op = "del_asst" THEN W.assistants
  ELSE IF c.op = "del_file" THEN W.files
  ELSE W.vstores

OwnCall(W, c, u) == \E x \in Recorded(W, c) : x.id = c.id /\ x.user = u

C30_CrossUserFrame ==
  [][last'.op \in {"del_file", "del_vs", "del_asst"} =>
       /\ Foreign(w', last'.user) = Foreign(w, last'.user)
       /\ \A c \in last'.calls :
             c.op \in {"del_thread", "del_asst", "del_vs", "del_file", "detach"}
               => OwnCall(w, c, last'.user)]_vars

\* a store is deleted by its owner while a Thread of the other user, with a
\* Message, references it
C30_Witness ==
  /\ last.op = "del_vs" /\ last.ret = TRUE
  /\ \E t \in w.threads :
        /\ t.user # last.user /\ t.vs = last.arg.id
        /\ \E m \in w.messages : m.thread = t.id

====
